---- MODULE Spec2Model ----
(***************************************************************************)
(* The useInterval hook (src/src/hooks/useInterval.tsx, lines 64-163) as a *)
(* state machine.  One controller instance lives inside one host           *)
(* component.  The refs (intervalRef, callbackRef, pausedCallbackRef) are  *)
(* mutable cells written at once; the React state (isActive, isPaused) is  *)
(* what the last render committed, and a setState call only queues a value *)
(* that the next render commits.  start/stop/pause/resume/restart are the  *)
(* closures of the last render: they read the props and the state of that  *)
(* render and the refs of the moment they run.                             *)
(*                                                                         *)
(* Three specifications: Spec is the canonical hook on its own; SideBySide *)
(* runs it next to the earlier useInterval without pause and resume (lines *)
(* 218-277) under the same events; DraftSpec is the draft useIntervalHook  *)
(* (src/unnamed/part_000), which keeps the handle in render state.         *)
(***************************************************************************)
EXTENDS Integers, FiniteSets, Sequences, TLC

\* ---- bounds --------------------------------------------------------------
MaxTimers == 2        \* timers of one instance that may be live at once
MaxTime   == 2        \* time units that may elapse after one operation
MaxDraftHandles == 3  \* timers one instance of the draft hook may register

\* ---- values --------------------------------------------------------------
NULL      == 0                       \* null: no handle / disabled delay
Delays    == {NULL, 1, 2}            \* delay: number | null
Callbacks == {"tick", "boom"}        \* host callbacks; "boom" throws
NoCallback == "none"

Throws(cb) == cb = "boom"

VARIABLES
    phase,               \* "created" (rendered, effects not yet run), "mounted", "unmounted"
    callback,            \* props of the last render
    delay,
    immediate,
    executeImmediately,
    isActive,            \* state committed by the last render
    isPaused,
    qActive,             \* queued setIsActive value: <<>> or <<v>>
    qPaused,             \* queued setIsPaused value: <<>> or <<v>>
    intervalRef,         \* intervalRef.current: NULL or a handle
    callbackRef,         \* callbackRef.current
    pausedCallbackRef,   \* pausedCallbackRef.current
    timers,              \* live timers of the runtime: handle -> [period, elapsed]
    calls,               \* callback invocations since the last operation began
    lastCalled,          \* callback body run by the last invocation
    since,               \* time elapsed since the last operation
    lastOp               \* the last operation and the state it was called in

vars == <<phase, callback, delay, immediate, executeImmediately, isActive,
          isPaused, qActive, qPaused, intervalRef, callbackRef,
          pausedCallbackRef, timers, calls, lastCalled, since, lastOp>>

\* The earlier useInterval (lines 218-277: no pause and resume, restart is
\* stop then start), as a second hook of the same host component with the
\* same callback, delay and options.
VARIABLES
    earlierIsActive,     \* isActive committed by the last render
    earlierQActive,      \* queued setIsActive value
    earlierIntervalRef,  \* intervalRef.current
    earlierCallbackRef,  \* callbackRef.current
    earlierTimers,       \* live timers registered by this hook
    earlierCalls,        \* callback invocations since the last operation began
    earlierLastCalled    \* callback body run by the last invocation

earlierVars == <<earlierIsActive, earlierQActive, earlierIntervalRef,
                 earlierCallbackRef, earlierTimers, earlierCalls,
                 earlierLastCalled>>

\* The draft useIntervalHook (src/unnamed/part_000), which keeps the handle in
\* render state: start, stop and the cleanups read the intervalId of the
\* render that created them.
VARIABLES
    draftPhase,          \* "created", "mounted", "unmounted"
    draftCallback,       \* props of the last render
    draftDelay,
    draftAutoStart,
    draftIntervalId,     \* intervalId committed by the last render
    draftQueue,          \* queued setIntervalId value: <<>> or <<v>>
    draftSavedCallback,  \* savedCallback.current
    draftCaptured,       \* intervalId closed over by the auto-start effect's cleanup
    draftTimers,         \* live timers of the runtime: handle -> period
    draftNextId,         \* the handle the next setInterval returns
    draftLastCalled      \* callback body run by the last tick

draftVars == <<draftPhase, draftCallback, draftDelay, draftAutoStart,
               draftIntervalId, draftQueue, draftSavedCallback, draftCaptured,
               draftTimers, draftNextId, draftLastCalled>>

\* ---- the mutable part an operation works on --------------------------------
Cur ==
    [intervalRef |-> intervalRef, callbackRef |-> callbackRef,
     pausedCallbackRef |-> pausedCallbackRef, timers |-> timers,
     qActive |-> qActive, qPaused |-> qPaused,
     calls |-> 0, lastCalled |-> lastCalled, threw |-> FALSE]

\* the handle the next setInterval returns.  Handles are opaque and the hook
\* never keeps one it has cleared, so all that matters is that a new handle
\* differs from every live one: the least number no live timer has.
newHandle(c) ==
    CHOOSE h \in 1..(Cardinality(DOMAIN c.timers) + 1) :
        /\ h \notin DOMAIN c.timers
        /\ \A g \in 1..(h - 1) : g \in DOMAIN c.timers

\* setInterval(() => callbackRef.current(), d): a new live timer, phase 0
setInterval(c, d) ==
    [c EXCEPT !.timers = (newHandle(c) :> [period |-> d, elapsed |-> 0]) @@ @]

\* clearInterval(h)
clearInterval(c, h) ==
    [c EXCEPT !.timers = [i \in (DOMAIN @) \ {h} |-> @[i]]]

\* callbackRef.current()
invoke(c) ==
    [c EXCEPT !.calls = @ + 1, !.lastCalled = c.callbackRef,
              !.threw = Throws(c.callbackRef)]

setIsActive(c, v) == [c EXCEPT !.qActive = <<v>>]
setIsPaused(c, v) == [c EXCEPT !.qPaused = <<v>>]

\* ---- the five operations, as closures over (delay, executeImmediately, isPaused)
\* start without the test of the handle field
startIgnoringHandle(c, d, ex) ==
    IF d = NULL THEN c
    ELSE LET c1 == IF ex THEN invoke(c) ELSE c IN
         IF c1.threw THEN c1
         ELSE LET c2 == [setInterval(c1, d) EXCEPT !.intervalRef = newHandle(c1)]
              IN  setIsPaused(setIsActive(c2, TRUE), FALSE)

\* start without the test of the delay
startIgnoringDelay(c, d, ex) ==
    IF c.intervalRef # NULL THEN c
    ELSE LET c1 == IF ex THEN invoke(c) ELSE c IN
         IF c1.threw THEN c1
         ELSE LET c2 == [setInterval(c1, d) EXCEPT !.intervalRef = newHandle(c1)]
              IN  setIsPaused(setIsActive(c2, TRUE), FALSE)

start(c, d, ex) ==
    IF c.intervalRef # NULL \/ d = NULL THEN c
    ELSE LET c1 == IF ex THEN invoke(c) ELSE c IN
         IF c1.threw THEN c1
         ELSE LET c2 == [setInterval(c1, d) EXCEPT !.intervalRef = newHandle(c1)]
              IN  setIsPaused(setIsActive(c2, TRUE), FALSE)

stop(c) ==
    LET c1 == IF c.intervalRef # NULL
              THEN [clearInterval(c, c.intervalRef) EXCEPT !.intervalRef = NULL]
              ELSE c
    IN  [setIsPaused(setIsActive(c1, FALSE), FALSE)
            EXCEPT !.pausedCallbackRef = NoCallback]

pause(c, paused) ==
    IF c.intervalRef # NULL /\ ~paused
    THEN [setIsPaused([clearInterval(c, c.intervalRef) EXCEPT !.intervalRef = NULL], TRUE)
            EXCEPT !.pausedCallbackRef = c.callbackRef]
    ELSE c

resume(c, paused, d) ==
    IF paused /\ d # NULL
    THEN setIsPaused([setInterval(c, d) EXCEPT !.intervalRef = newHandle(c)], FALSE)
    ELSE c

\* restart without the test of the delay
restartIgnoringDelay(c, d, ex) ==
    LET c1 == IF c.intervalRef # NULL
              THEN [clearInterval(c, c.intervalRef) EXCEPT !.intervalRef = NULL]
              ELSE c
        c2 == setIsPaused(setIsActive(c1, FALSE), FALSE)
        c3 == IF ex THEN invoke(c2) ELSE c2
    IN  IF c3.threw THEN c3
        ELSE setIsActive([setInterval(c3, d) EXCEPT !.intervalRef = newHandle(c3)], TRUE)

restart(c, d, ex) ==
    LET c1 == IF c.intervalRef # NULL
              THEN [clearInterval(c, c.intervalRef) EXCEPT !.intervalRef = NULL]
              ELSE c
        c2 == setIsPaused(setIsActive(c1, FALSE), FALSE)
    IN  IF d = NULL THEN c2
        ELSE LET c3 == IF ex THEN invoke(c2) ELSE c2 IN
             IF c3.threw THEN c3
             ELSE setIsActive([setInterval(c3, d) EXCEPT !.intervalRef = newHandle(c3)], TRUE)

\* ---- status ----------------------------------------------------------------
Status(a, p) ==
    IF ~a /\ ~p THEN "Stopped"
    ELSE IF a /\ ~p THEN "Running"
    ELSE IF a /\ p THEN "Paused"
    ELSE "Illegal"

NextActive == IF qActive = <<>> THEN isActive ELSE qActive[1]
NextPaused == IF qPaused = <<>> THEN isPaused ELSE qPaused[1]

Observed == Status(isActive, isPaused)     \* what the host reads
State    == Status(NextActive, NextPaused) \* with the queued updates applied
Settled  == NextActive = isActive /\ NextPaused = isPaused

Live == DOMAIN timers

\* ---- writing a result back ---------------------------------------------------
Install(c, name) ==
    /\ Cardinality(DOMAIN c.timers) <= MaxTimers
    /\ intervalRef' = c.intervalRef
    /\ callbackRef' = c.callbackRef
    /\ pausedCallbackRef' = c.pausedCallbackRef
    /\ timers' = c.timers
    /\ qActive' = c.qActive
    /\ qPaused' = c.qPaused
    /\ calls' = c.calls
    /\ lastCalled' = c.lastCalled
    /\ since' = 0
    /\ lastOp' = [op |-> name, from |-> State, settled |-> Settled,
                  threw |-> c.threw]

Props == <<callback, delay, immediate, executeImmediately>>
Rendered == <<isActive, isPaused>>

\* ---- actions -----------------------------------------------------------------
Init ==
    /\ phase = "created"
    /\ callback \in Callbacks
    /\ delay \in Delays
    /\ immediate \in BOOLEAN
    /\ executeImmediately \in BOOLEAN
    /\ isActive = FALSE
    /\ isPaused = FALSE
    /\ qActive = <<>>
    /\ qPaused = <<>>
    /\ intervalRef = NULL
    /\ callbackRef = callback
    /\ pausedCallbackRef = NoCallback
    /\ timers = <<>>
    /\ calls = 0
    /\ lastCalled = NoCallback
    /\ since = 0
    /\ lastOp = [op |-> "create", from |-> "Stopped", settled |-> TRUE,
                 threw |-> FALSE]

\* An exception that leaves an effect makes the host runtime unmount the
\* component: the cleanup effect (stop) runs and queued state is dropped.
AfterEffects(c) ==
    IF c.threw
    THEN [stop(c) EXCEPT !.qActive = <<>>, !.qPaused = <<>>]
    ELSE c

\* a mount whose immediate-start effect does not test the immediate option
MountStartingRegardless ==
    /\ phase = "created"
    /\ LET c0 == [Cur EXCEPT !.callbackRef = callback]
           c1 == IF delay # NULL
                 THEN start(c0, delay, executeImmediately) ELSE c0
       IN  /\ Install(AfterEffects(c1), "mount")
           /\ phase' = IF c1.threw THEN "unmounted" ELSE "mounted"
    /\ UNCHANGED <<Props, Rendered>>

\* a mount whose immediate-start effect is missing
MountWithoutStart ==
    /\ phase = "created"
    /\ Install([Cur EXCEPT !.callbackRef = callback], "mount")
    /\ phase' = "mounted"
    /\ UNCHANGED <<Props, Rendered>>

\* the effects of the first commit: callback slot, then the immediate start
Mount ==
    /\ phase = "created"
    /\ LET c0 == [Cur EXCEPT !.callbackRef = callback]
           c1 == IF immediate /\ delay # NULL
                 THEN start(c0, delay, executeImmediately) ELSE c0
       IN  /\ Install(AfterEffects(c1), "mount")
           /\ phase' = IF c1.threw THEN "unmounted" ELSE "mounted"
    /\ UNCHANGED <<Props, Rendered>>

Start ==
    /\ phase = "mounted"
    /\ Install(start(Cur, delay, executeImmediately), "start")
    /\ UNCHANGED <<phase, Props, Rendered>>

Stop ==
    /\ phase = "mounted"
    /\ Install(stop(Cur), "stop")
    /\ UNCHANGED <<phase, Props, Rendered>>

Pause ==
    /\ phase = "mounted"
    /\ Install(pause(Cur, isPaused), "pause")
    /\ UNCHANGED <<phase, Props, Rendered>>

Resume ==
    /\ phase = "mounted"
    /\ Install(resume(Cur, isPaused, delay), "resume")
    /\ UNCHANGED <<phase, Props, Rendered>>

Restart ==
    /\ phase = "mounted"
    /\ Install(restart(Cur, delay, executeImmediately), "restart")
    /\ UNCHANGED <<phase, Props, Rendered>>

\* the host re-renders because state updates are queued
Render ==
    /\ phase = "mounted"
    /\ qActive # <<>> \/ qPaused # <<>>
    /\ isActive' = NextActive
    /\ isPaused' = NextPaused
    /\ qActive' = <<>>
    /\ qPaused' = <<>>
    /\ UNCHANGED <<phase, Props, intervalRef, callbackRef, pausedCallbackRef,
                   timers, calls, lastCalled, since, lastOp>>

\* which prop a host update changes; for the delay, whether it enables
\* (null -> number), disables (number -> null) or replaces a number
UpdateOp(cb, d, imm, ex) ==
    IF cb # callback THEN "callback"
    ELSE IF d # delay
         THEN (IF delay = NULL THEN "enable" ELSE IF d = NULL THEN "disable" ELSE "delay")
    ELSE IF imm # immediate THEN "immediate"
    ELSE "executeImmediately"

\* a host update whose callback effect does not write the callback slot
UpdateKeepingSlot(cb, d, imm, ex) ==
    /\ phase = "mounted"
    /\ <<cb, d, imm, ex>> # Props
    /\ callback' = cb
    /\ delay' = d
    /\ immediate' = imm
    /\ executeImmediately' = ex
    /\ isActive' = NextActive
    /\ isPaused' = NextPaused
    /\ LET c0 == [Cur EXCEPT !.qActive = <<>>, !.qPaused = <<>>]
           rerun == imm # immediate \/ d # delay \/ ex # executeImmediately
           c1 == IF rerun /\ imm /\ d # NULL THEN start(c0, d, ex) ELSE c0
       IN  /\ Install(AfterEffects(c1), UpdateOp(cb, d, imm, ex))
           /\ phase' = IF c1.threw THEN "unmounted" ELSE "mounted"

\* a host update whose immediate-start effect also depends on the callback
UpdateStartingOnCallback(cb, d, imm, ex) ==
    /\ phase = "mounted"
    /\ <<cb, d, imm, ex>> # Props
    /\ callback' = cb
    /\ delay' = d
    /\ immediate' = imm
    /\ executeImmediately' = ex
    /\ isActive' = NextActive
    /\ isPaused' = NextPaused
    /\ LET c0 == [Cur EXCEPT !.qActive = <<>>, !.qPaused = <<>>,
                             !.callbackRef = cb]
           c1 == IF imm /\ d # NULL THEN start(c0, d, ex) ELSE c0
       IN  /\ Install(AfterEffects(c1), UpdateOp(cb, d, imm, ex))
           /\ phase' = IF c1.threw THEN "unmounted" ELSE "mounted"

\* a host update that re-registers a live timer with the new delay
UpdateReschedulingTimer(cb, d, imm, ex) ==
    /\ phase = "mounted"
    /\ <<cb, d, imm, ex>> # Props
    /\ callback' = cb
    /\ delay' = d
    /\ immediate' = imm
    /\ executeImmediately' = ex
    /\ isActive' = NextActive
    /\ isPaused' = NextPaused
    /\ LET c0 == [Cur EXCEPT !.qActive = <<>>, !.qPaused = <<>>,
                             !.callbackRef = cb]
           rerun == imm # immediate \/ d # delay \/ ex # executeImmediately
           c1 == IF d # delay /\ d # NULL /\ c0.intervalRef # NULL
                 THEN [setInterval(clearInterval(c0, c0.intervalRef), d)
                          EXCEPT !.intervalRef =
                              newHandle(clearInterval(c0, c0.intervalRef))]
                 ELSE IF rerun /\ imm /\ d # NULL THEN start(c0, d, ex) ELSE c0
       IN  /\ Install(AfterEffects(c1), UpdateOp(cb, d, imm, ex))
           /\ phase' = IF c1.threw THEN "unmounted" ELSE "mounted"

\* the host re-renders with new props; the effects whose dependencies changed run
Update(cb, d, imm, ex) ==
    /\ phase = "mounted"
    /\ <<cb, d, imm, ex>> # Props
    /\ callback' = cb
    /\ delay' = d
    /\ immediate' = imm
    /\ executeImmediately' = ex
    /\ isActive' = NextActive
    /\ isPaused' = NextPaused
    /\ LET c0 == [Cur EXCEPT !.qActive = <<>>, !.qPaused = <<>>,
                             !.callbackRef = cb]
           rerun == imm # immediate \/ d # delay \/ ex # executeImmediately
           c1 == IF rerun /\ imm /\ d # NULL THEN start(c0, d, ex) ELSE c0
       IN  /\ Install(AfterEffects(c1), UpdateOp(cb, d, imm, ex))
           /\ phase' = IF c1.threw THEN "unmounted" ELSE "mounted"

HostUpdate ==
    \/ \E cb \in Callbacks : Update(cb, delay, immediate, executeImmediately)
    \/ \E d \in Delays : Update(callback, d, immediate, executeImmediately)
    \/ \E imm \in BOOLEAN : Update(callback, delay, imm, executeImmediately)
    \/ \E ex \in BOOLEAN : Update(callback, delay, immediate, ex)

\* unmount: the cleanup effect calls stop; setState on an unmounted host is dropped
Teardown ==
    /\ phase \in {"mounted", "unmounted"}
    /\ phase' = "unmounted"
    /\ LET c1 == stop(Cur)
       IN  Install([c1 EXCEPT !.qActive = qActive, !.qPaused = qPaused], "teardown")
    /\ UNCHANGED <<Props, Rendered>>

\* one time unit elapses: every live timer advances, the due ones fire
Due == {h \in Live : timers[h].elapsed + 1 = timers[h].period}

\* a runtime that cancels a timer whose callback throws
AdvanceCancellingOnThrow ==
    /\ since < MaxTime
    /\ since' = since + 1
    /\ timers' = [h \in (IF Throws(callbackRef) THEN Live \ Due ELSE Live) |->
                    [timers[h] EXCEPT !.elapsed = IF h \in Due THEN 0 ELSE @ + 1]]
    /\ calls' = calls + Cardinality(Due)
    /\ lastCalled' = IF Due # {} THEN callbackRef ELSE lastCalled
    /\ UNCHANGED <<phase, Props, Rendered, qActive, qPaused, intervalRef,
                   callbackRef, pausedCallbackRef, lastOp>>

Advance ==
    /\ since < MaxTime
    /\ since' = since + 1
    /\ timers' = [h \in Live |->
                    [timers[h] EXCEPT !.elapsed = IF h \in Due THEN 0 ELSE @ + 1]]
    /\ calls' = calls + Cardinality(Due)
    /\ lastCalled' = IF Due # {} THEN callbackRef ELSE lastCalled
    /\ UNCHANGED <<phase, Props, Rendered, qActive, qPaused, intervalRef,
                   callbackRef, pausedCallbackRef, lastOp>>

\* ---- the earlier useInterval: start, stop, restart ------------------------
EarlierCur ==
    [intervalRef |-> earlierIntervalRef, callbackRef |-> earlierCallbackRef,
     timers |-> earlierTimers, qActive |-> earlierQActive,
     calls |-> 0, lastCalled |-> earlierLastCalled, threw |-> FALSE]

\* the earlier start without the synchronous invocation
earlierStartNeverInvoking(c, d, ex) ==
    IF c.intervalRef # NULL \/ d = NULL THEN c
    ELSE setIsActive([setInterval(c, d) EXCEPT !.intervalRef = newHandle(c)], TRUE)

earlierStart(c, d, ex) ==
    IF c.intervalRef # NULL \/ d = NULL THEN c
    ELSE LET c1 == IF ex THEN invoke(c) ELSE c IN
         IF c1.threw THEN c1
         ELSE setIsActive([setInterval(c1, d) EXCEPT !.intervalRef = newHandle(c1)], TRUE)

earlierStop(c) ==
    IF c.intervalRef # NULL
    THEN setIsActive([clearInterval(c, c.intervalRef) EXCEPT !.intervalRef = NULL], FALSE)
    ELSE c

\* stop(); start();
earlierRestart(c, d, ex) == earlierStart(earlierStop(c), d, ex)

EarlierNextActive ==
    IF earlierQActive = <<>> THEN earlierIsActive ELSE earlierQActive[1]

EarlierLive == DOMAIN earlierTimers

EarlierInstall(c) ==
    /\ Cardinality(DOMAIN c.timers) <= MaxTimers
    /\ earlierIntervalRef' = c.intervalRef
    /\ earlierCallbackRef' = c.callbackRef
    /\ earlierTimers' = c.timers
    /\ earlierQActive' = c.qActive
    /\ earlierCalls' = c.calls
    /\ earlierLastCalled' = c.lastCalled

EarlierInit ==
    /\ earlierIsActive = FALSE
    /\ earlierQActive = <<>>
    /\ earlierIntervalRef = NULL
    /\ earlierCallbackRef = callback
    /\ earlierTimers = <<>>
    /\ earlierCalls = 0
    /\ earlierLastCalled = NoCallback

\* an exception that leaves an effect unmounts the host: the cleanup runs
EarlierAfterEffects(c) ==
    IF c.threw THEN [earlierStop(c) EXCEPT !.qActive = <<>>] ELSE c

\* the effects of the first commit
EarlierMount ==
    LET c0 == [EarlierCur EXCEPT !.callbackRef = callback]
        c1 == IF immediate /\ delay # NULL
              THEN earlierStart(c0, delay, executeImmediately) ELSE c0
    IN  /\ EarlierInstall(EarlierAfterEffects(c1))
        /\ UNCHANGED earlierIsActive

EarlierStart ==
    /\ EarlierInstall(earlierStart(EarlierCur, delay, executeImmediately))
    /\ UNCHANGED earlierIsActive

EarlierStop ==
    /\ EarlierInstall(earlierStop(EarlierCur))
    /\ UNCHANGED earlierIsActive

EarlierRestart ==
    /\ EarlierInstall(earlierRestart(EarlierCur, delay, executeImmediately))
    /\ UNCHANGED earlierIsActive

\* the re-render commits the queued state
EarlierRender ==
    /\ earlierIsActive' = EarlierNextActive
    /\ earlierQActive' = <<>>
    /\ UNCHANGED <<earlierIntervalRef, earlierCallbackRef, earlierTimers,
                   earlierCalls, earlierLastCalled>>

\* the re-render with new props and the effects whose dependencies changed
EarlierUpdate(cb, d, imm, ex) ==
    /\ earlierIsActive' = EarlierNextActive
    /\ LET c0 == [EarlierCur EXCEPT !.qActive = <<>>, !.callbackRef = cb]
           rerun == imm # immediate \/ d # delay \/ ex # executeImmediately
           c1 == IF rerun /\ imm /\ d # NULL THEN earlierStart(c0, d, ex) ELSE c0
       IN  EarlierInstall(EarlierAfterEffects(c1))

\* unmount: the cleanup effect calls stop
EarlierTeardown ==
    /\ EarlierInstall([earlierStop(EarlierCur) EXCEPT !.qActive = earlierQActive])
    /\ UNCHANGED earlierIsActive

EarlierDue ==
    {h \in EarlierLive : earlierTimers[h].elapsed + 1 = earlierTimers[h].period}

EarlierAdvance ==
    /\ earlierTimers' = [h \in EarlierLive |->
            [earlierTimers[h] EXCEPT !.elapsed = IF h \in EarlierDue THEN 0 ELSE @ + 1]]
    /\ earlierCalls' = earlierCalls + Cardinality(EarlierDue)
    /\ earlierLastCalled' =
            IF EarlierDue # {} THEN earlierCallbackRef ELSE earlierLastCalled
    /\ UNCHANGED <<earlierIsActive, earlierQActive, earlierIntervalRef,
                   earlierCallbackRef>>

\* the host does not use the draft hook
DraftAbsent ==
    /\ draftPhase = "created"
    /\ draftCallback = NoCallback
    /\ draftDelay = 1
    /\ draftAutoStart = FALSE
    /\ draftIntervalId = NULL
    /\ draftQueue = <<>>
    /\ draftSavedCallback = NoCallback
    /\ draftCaptured = NULL
    /\ draftTimers = <<>>
    /\ draftNextId = 1
    /\ draftLastCalled = NoCallback

\* the canonical hook on its own: the host does not use the earlier one
EarlierAbsent ==
    /\ earlierIsActive = FALSE
    /\ earlierQActive = <<>>
    /\ earlierIntervalRef = NULL
    /\ earlierCallbackRef = NoCallback
    /\ earlierTimers = <<>>
    /\ earlierCalls = 0
    /\ earlierLastCalled = NoCallback

EarlierUnused == UNCHANGED earlierVars

DraftUnused == UNCHANGED draftVars

Next ==
    \/ Mount /\ EarlierUnused /\ DraftUnused
    \/ Start /\ EarlierUnused /\ DraftUnused
    \/ Stop /\ EarlierUnused /\ DraftUnused
    \/ Pause /\ EarlierUnused /\ DraftUnused
    \/ Resume /\ EarlierUnused /\ DraftUnused
    \/ Restart /\ EarlierUnused /\ DraftUnused
    \/ Render /\ EarlierUnused /\ DraftUnused
    \/ HostUpdate /\ EarlierUnused /\ DraftUnused
    \/ Teardown /\ EarlierUnused /\ DraftUnused
    \/ Advance /\ EarlierUnused /\ DraftUnused

allVars == <<vars, earlierVars, draftVars>>

InitAlone == Init /\ EarlierAbsent /\ DraftAbsent

Spec == InitAlone /\ [][Next]_allVars

\* ---- the two hooks side by side ---------------------------------------------
\* one host component uses both hooks with the same arguments and calls the
\* same function of both at every event; pause and resume are not used
BothMount == Mount /\ EarlierMount /\ DraftUnused
BothStart == Start /\ EarlierStart /\ DraftUnused
BothStop == Stop /\ EarlierStop /\ DraftUnused
BothRestart == Restart /\ EarlierRestart /\ DraftUnused
BothRender == Render /\ EarlierRender /\ DraftUnused
BothHostUpdate ==
    \/ \E cb \in Callbacks : /\ Update(cb, delay, immediate, executeImmediately)
                             /\ EarlierUpdate(cb, delay, immediate, executeImmediately)
                             /\ DraftUnused
    \/ \E d \in Delays : /\ Update(callback, d, immediate, executeImmediately)
                         /\ EarlierUpdate(callback, d, immediate, executeImmediately)
                         /\ DraftUnused
    \/ \E imm \in BOOLEAN : /\ Update(callback, delay, imm, executeImmediately)
                            /\ EarlierUpdate(callback, delay, imm, executeImmediately)
                            /\ DraftUnused
    \/ \E ex \in BOOLEAN : /\ Update(callback, delay, immediate, ex)
                           /\ EarlierUpdate(callback, delay, immediate, ex)
                           /\ DraftUnused
BothTeardown == Teardown /\ EarlierTeardown /\ DraftUnused
BothAdvance == Advance /\ EarlierAdvance /\ DraftUnused

BothNext ==
    \/ BothMount
    \/ BothStart
    \/ BothStop
    \/ BothRestart
    \/ BothRender
    \/ BothHostUpdate
    \/ BothTeardown
    \/ BothAdvance

BothInit == Init /\ EarlierInit /\ DraftAbsent

SideBySide == BothInit /\ [][BothNext]_allVars

\* ---- the draft useIntervalHook ----------------------------------------------
DraftCur == [timers |-> draftTimers, nextId |-> draftNextId, queue |-> draftQueue]

DraftLive == DOMAIN draftTimers

\* clearInterval(id): a handle that is no longer live is ignored
draftClearInterval(c, id) ==
    [c EXCEPT !.timers = [i \in (DOMAIN @) \ {id} |-> @[i]]]

\* start of the render whose intervalId is id and whose delay is d
draftStart(c, id, d) ==
    IF id # NULL THEN c
    ELSE [c EXCEPT !.timers = (c.nextId :> d) @@ @,
                   !.nextId = @ + 1,
                   !.queue = <<c.nextId>>]

\* stop of the render whose intervalId is id
draftStop(c, id) ==
    IF id # NULL THEN [draftClearInterval(c, id) EXCEPT !.queue = <<NULL>>]
    ELSE c

\* the cleanup of an effect created by the render whose intervalId is id
draftCleanup(c, id) ==
    IF id # NULL THEN draftClearInterval(c, id) ELSE c

DraftInstall(c) ==
    /\ c.nextId <= MaxDraftHandles + 1
    /\ draftTimers' = c.timers
    /\ draftNextId' = c.nextId
    /\ draftQueue' = c.queue

DraftProps == <<draftCallback, draftDelay, draftAutoStart>>

DraftInit ==
    /\ draftPhase = "created"
    /\ draftCallback \in Callbacks
    /\ draftDelay \in Delays \ {NULL}
    /\ draftAutoStart \in BOOLEAN
    /\ draftIntervalId = NULL
    /\ draftQueue = <<>>
    /\ draftSavedCallback = NoCallback
    /\ draftCaptured = NULL
    /\ draftTimers = <<>>
    /\ draftNextId = 1
    /\ draftLastCalled = NoCallback

\* the effects of the first commit: saved callback, auto-start, cleanups set up
DraftMount ==
    /\ draftPhase = "created"
    /\ draftPhase' = "mounted"
    /\ draftSavedCallback' = draftCallback
    /\ DraftInstall(IF draftAutoStart
                    THEN draftStart(DraftCur, draftIntervalId, draftDelay)
                    ELSE DraftCur)
    /\ draftCaptured' = draftIntervalId
    /\ UNCHANGED <<DraftProps, draftIntervalId, draftLastCalled>>

DraftStart ==
    /\ draftPhase = "mounted"
    /\ DraftInstall(draftStart(DraftCur, draftIntervalId, draftDelay))
    /\ UNCHANGED <<draftPhase, DraftProps, draftIntervalId, draftSavedCallback,
                   draftCaptured, draftLastCalled>>

DraftStop ==
    /\ draftPhase = "mounted"
    /\ DraftInstall(draftStop(DraftCur, draftIntervalId))
    /\ UNCHANGED <<draftPhase, DraftProps, draftIntervalId, draftSavedCallback,
                   draftCaptured, draftLastCalled>>

\* the intervalId the next render commits
DraftNextIntervalId ==
    IF draftQueue = <<>> THEN draftIntervalId ELSE draftQueue[1]

\* the host re-renders because a state update is queued; when intervalId
\* changed, the cleanup of the [intervalId] effect of the previous render runs
DraftRender ==
    /\ draftPhase = "mounted"
    /\ draftQueue # <<>>
    /\ draftIntervalId' = DraftNextIntervalId
    /\ LET c0 == [DraftCur EXCEPT !.queue = <<>>]
       IN  DraftInstall(IF DraftNextIntervalId # draftIntervalId
                        THEN draftCleanup(c0, draftIntervalId) ELSE c0)
    /\ UNCHANGED <<draftPhase, DraftProps, draftSavedCallback, draftCaptured,
                   draftLastCalled>>

\* the host re-renders with new props: cleanups of the effects whose
\* dependencies changed, then the effects
DraftUpdate(cb, d, auto) ==
    /\ draftPhase = "mounted"
    /\ <<cb, d, auto>> # DraftProps
    /\ draftCallback' = cb
    /\ draftDelay' = d
    /\ draftAutoStart' = auto
    /\ draftIntervalId' = DraftNextIntervalId
    /\ draftSavedCallback' = cb
    /\ LET c0 == [DraftCur EXCEPT !.queue = <<>>]
           c1 == IF auto # draftAutoStart THEN draftCleanup(c0, draftCaptured) ELSE c0
           c2 == IF DraftNextIntervalId # draftIntervalId
                 THEN draftCleanup(c1, draftIntervalId) ELSE c1
           c3 == IF auto # draftAutoStart /\ auto
                 THEN draftStart(c2, DraftNextIntervalId, d) ELSE c2
       IN  DraftInstall(c3)
    /\ draftCaptured' = IF auto # draftAutoStart THEN DraftNextIntervalId
                        ELSE draftCaptured
    /\ UNCHANGED <<draftPhase, draftLastCalled>>

DraftHostUpdate ==
    \/ \E cb \in Callbacks : DraftUpdate(cb, draftDelay, draftAutoStart)
    \/ \E d \in Delays \ {NULL} : DraftUpdate(draftCallback, d, draftAutoStart)
    \/ \E auto \in BOOLEAN : DraftUpdate(draftCallback, draftDelay, auto)

\* unmount: both cleanups run with the intervalId they closed over; queued
\* state is dropped
DraftTeardown ==
    /\ draftPhase = "mounted"
    /\ draftPhase' = "unmounted"
    /\ DraftInstall([draftCleanup(draftCleanup(DraftCur, draftCaptured), draftIntervalId)
                        EXCEPT !.queue = <<>>])
    /\ UNCHANGED <<DraftProps, draftIntervalId, draftSavedCallback, draftCaptured,
                   draftLastCalled>>

\* a live timer fires: savedCallback.current?.()
DraftTick ==
    /\ DraftLive # {}
    /\ draftLastCalled' = draftSavedCallback
    /\ UNCHANGED <<draftPhase, DraftProps, draftIntervalId, draftQueue,
                   draftSavedCallback, draftCaptured, draftTimers, draftNextId>>

\* the host uses the draft hook only
CanonicalAbsent ==
    /\ phase = "created"
    /\ callback = NoCallback
    /\ delay = NULL
    /\ immediate = FALSE
    /\ executeImmediately = FALSE
    /\ isActive = FALSE
    /\ isPaused = FALSE
    /\ qActive = <<>>
    /\ qPaused = <<>>
    /\ intervalRef = NULL
    /\ callbackRef = NoCallback
    /\ pausedCallbackRef = NoCallback
    /\ timers = <<>>
    /\ calls = 0
    /\ lastCalled = NoCallback
    /\ since = 0
    /\ lastOp = [op |-> "create", from |-> "Stopped", settled |-> TRUE,
                 threw |-> FALSE]

CanonicalUnused == UNCHANGED <<vars, earlierVars>>

DraftInitAlone == DraftInit /\ CanonicalAbsent /\ EarlierAbsent

DraftNext ==
    \/ DraftMount /\ CanonicalUnused
    \/ DraftStart /\ CanonicalUnused
    \/ DraftStop /\ CanonicalUnused
    \/ DraftRender /\ CanonicalUnused
    \/ DraftHostUpdate /\ CanonicalUnused
    \/ DraftTeardown /\ CanonicalUnused
    \/ DraftTick /\ CanonicalUnused

DraftSpec == DraftInitAlone /\ [][DraftNext]_allVars

StatusAndHandle == <<isActive, isPaused, qActive, qPaused, intervalRef, timers>>

\* ---- C1 ---------------------------------------------------------------------
\* C1: in every reachable state at most one timer handle registered by the
\* instance is live.
AtMostOneLiveHandle == Cardinality(Live) <= 1

\* ---- C2 ---------------------------------------------------------------------
\* C2: the status the host observes is never isActive=false with isPaused=true.
ObservedStatusLegal == ~(~isActive /\ isPaused)

StartWhilePausedIsNoOp ==
    [][(Start /\ State = "Paused") =>
          /\ State' = "Paused"
          /\ UNCHANGED <<intervalRef, timers>>
          /\ calls' = 0]_vars

\* ---- C5 ---------------------------------------------------------------------
\* C5: after stop returns and until the next operation, no tick invokes the
\* callback, however much time elapses.
StopSilencesTicks == lastOp.op = "stop" => calls = 0

\* ---- C6 ---------------------------------------------------------------------
\* C6: stop leaves the controller Stopped with no live timer handle, and stop
\* called in Stopped changes neither the status nor the handle.
StopLeavesStopped ==
    [][Stop =>
          /\ State' = "Stopped"
          /\ intervalRef' = NULL
          /\ Live' = {}
          /\ State = "Stopped" => UNCHANGED <<isActive, isPaused, intervalRef, timers>>]_vars

\* ---- C7 ---------------------------------------------------------------------
\* C7: pause called in Running releases the handle and leaves the controller
\* Paused, and while it is Paused no tick invokes the callback.
PauseReleasesAndSilences ==
    [][/\ (Pause /\ State = "Running") =>
             /\ intervalRef' = NULL
             /\ intervalRef \notin Live'
             /\ State' = "Paused"
       /\ (Advance /\ State = "Paused") => calls' = calls]_vars

\* ---- C8 ---------------------------------------------------------------------
\* C8: pause called in Stopped or in Paused changes neither the status flags
\* nor the timer-handle field.
PauseWhenNotRunningIsNoOp ==
    [][(Pause /\ State \in {"Stopped", "Paused"}) =>
          /\ State' = State
          /\ UNCHANGED <<isActive, isPaused, intervalRef, timers>>]_vars

\* ---- C9 ---------------------------------------------------------------------
\* C9: resume called in Paused with an enabled delay registers exactly one new
\* timer with the current delay and phase 0, which is the only live timer, and
\* leaves the controller Running.
ResumeRegistersFreshTimer ==
    [][(Resume /\ State = "Paused" /\ delay # NULL) =>
          /\ State' = "Running"
          /\ intervalRef' \notin Live
          /\ Live' = {intervalRef'}
          /\ timers'[intervalRef'] = [period |-> delay, elapsed |-> 0]]_vars

\* ---- C10 --------------------------------------------------------------------
\* C10: resume called in Stopped or in Running registers no timer and leaves
\* the status and the handle field unchanged.
ResumeWhenNotPausedIsNoOp ==
    [][(Resume /\ State \in {"Stopped", "Running"}) =>
          /\ State' = State
          /\ UNCHANGED <<intervalRef, timers>>]_vars

\* ---- C11 --------------------------------------------------------------------
\* C11: restart called with an enabled delay, in any state, returns with the
\* controller Running, the previous handle released and exactly one timer
\* live: a new one with the current delay at phase 0.
RestartLeavesOneFreshTimer ==
    [][(Restart /\ delay # NULL /\ ~lastOp'.threw) =>
          /\ State' = "Running"
          /\ Live' = {intervalRef'}
          /\ timers'[intervalRef'] = [period |-> delay, elapsed |-> 0]]_vars

\* ---- C12 --------------------------------------------------------------------
\* C12: stop called right after restart, before any re-render and before any
\* time elapses, leaves the controller Stopped with no handle and no live
\* timer, and no later re-render or tick arms one.
RestartThenStopLeavesNothing ==
    [][/\ (Stop /\ lastOp.op = "restart" /\ ~lastOp.threw /\ qActive # <<>> /\ since = 0) =>
             /\ State' = "Stopped"
             /\ intervalRef' = NULL
             /\ Live' = {}
       /\ ((Render \/ Advance) /\ lastOp.op = "stop") =>
             /\ State' = "Stopped"
             /\ intervalRef' = NULL
             /\ Live' \subseteq Live]_vars

\* ---- C13 --------------------------------------------------------------------
\* C13: while the delay is null, start, resume and the immediate-start effect
\* (at mount and at a host update) leave the status and the handle field
\* unchanged, register no timer and do not invoke the callback; after start
\* from Stopped the controller stays Stopped (isActive false once rendered)
\* however much time elapses.
DisabledDelayNeverActivates ==
    [][/\ ((Start \/ Resume \/ Mount \/ HostUpdate) /\ delay' = NULL) =>
             /\ State' = State
             /\ UNCHANGED <<intervalRef, timers>>
             /\ calls' = 0
       /\ ((Render \/ Advance) /\ lastOp.op = "start" /\ lastOp.from = "Stopped"
               /\ delay = NULL) =>
             /\ State' = "Stopped"
             /\ qActive' = <<>> => ~isActive']_vars

\* start was called in Stopped with a null delay and executeImmediately, time
\* has elapsed and the controller is still Stopped, the callback never invoked
DisabledDelayWitness ==
    /\ lastOp.op = "start" /\ lastOp.from = "Stopped"
    /\ delay = NULL /\ executeImmediately
    /\ since >= 2 /\ calls = 0
    /\ ~isActive /\ State = "Stopped" /\ intervalRef = NULL

\* ---- C14 --------------------------------------------------------------------
\* C14: restart called while the delay is null leaves the controller Stopped:
\* the handle it held is released, the handle field is null, no timer is
\* registered and the callback is not invoked.
RestartWithDisabledDelayStops ==
    [][(Restart /\ delay = NULL) =>
          /\ State' = "Stopped"
          /\ intervalRef' = NULL
          /\ Live' = Live \ {intervalRef}
          /\ calls' = 0]_vars

\* restart was called in Running, holding a live handle, after the delay became
\* null with executeImmediately set
RestartWithDisabledDelayWitness ==
    /\ lastOp.op = "restart" /\ lastOp.from = "Running"
    /\ delay = NULL /\ executeImmediately
    /\ Live = {}
    /\ State = "Stopped" /\ calls = 0

\* ---- C15 --------------------------------------------------------------------
\* C15: in every state in which the current delay is null no timer is live
\* (so no tick invokes the callback), also after the delay changed from a
\* number to null while Running.
DisabledDelayHasNoTimer == delay = NULL => Live = {}

\* ---- C16 --------------------------------------------------------------------
\* C16: every tick invokes the callback that is in the callback slot when it
\* fires, and that is the callback the host supplied last, not the one that
\* was current when the timer was registered.
TickInvokesCurrentCallback ==
    [][(Advance /\ Due # {}) =>
          /\ lastCalled' = callbackRef
          /\ lastCalled' = callback
          /\ calls' = calls + Cardinality(Due)]_vars

\* the host replaced the callback while Running, no operation followed, and the
\* one tick since then ran the new callback
TickInvokesCurrentCallbackWitness ==
    /\ lastOp.op = "callback" /\ lastOp.from = "Running"
    /\ Live = {intervalRef}
    /\ since = 1 /\ calls = 1
    /\ lastCalled = callback

\* ---- C17 --------------------------------------------------------------------
\* C17: a host update that changes only the callback writes the callback slot
\* and nothing else: the handle field, the live timers with their periods and
\* phases and the status are unchanged and the callback is not invoked.
CallbackUpdateTouchesOnlySlot ==
    [][(HostUpdate /\ callback' # callback) =>
          /\ callbackRef' = callback'
          /\ State' = State
          /\ (qActive = <<>> /\ qPaused = <<>>) => UNCHANGED <<isActive, isPaused>>
          /\ UNCHANGED <<intervalRef, timers, pausedCallbackRef, lastCalled>>
          /\ UNCHANGED <<delay, immediate, executeImmediately>>
          /\ calls' = 0]_vars

\* the callback was replaced in Stopped with immediate set and an enabled
\* delay: nothing was started
CallbackUpdateWitness ==
    /\ lastOp.op = "callback" /\ lastOp.from = "Stopped"
    /\ immediate /\ delay # NULL
    /\ intervalRef = NULL /\ Live = {} /\ State = "Stopped"

AutoStartOnlyOnEnable ==
    [][(HostUpdate /\ immediate /\ immediate'
           /\ lastOp'.op \in {"delay", "executeImmediately", "callback"}) =>
          /\ State' = State
          /\ UNCHANGED <<intervalRef, timers>>
          /\ calls' = 0]_vars

\* ---- C20 --------------------------------------------------------------------
\* C20: after the mount of a controller created with immediate and an enabled
\* delay, and until the first operation, the controller is Running with
\* exactly one live timer of that delay; with executeImmediately false the
\* callback has been invoked once per elapsed delay and not at mount.
ImmediateMountRuns ==
    (lastOp.op = "mount" /\ phase = "mounted" /\ immediate /\ delay # NULL) =>
        /\ State = "Running"
        /\ Live = {intervalRef}
        /\ timers[intervalRef].period = delay
        /\ ~executeImmediately => calls = since \div delay

\* mounted with immediate, delay 1 and executeImmediately false; two periods
\* later the callback has run twice
ImmediateMountWitness ==
    /\ lastOp.op = "mount" /\ phase = "mounted"
    /\ immediate /\ delay = 1 /\ ~executeImmediately
    /\ isActive /\ ~isPaused
    /\ since = 2 /\ calls = 2

\* ---- C21 --------------------------------------------------------------------
\* the states of a controller on which neither start nor restart has acted:
\* never rendered active or paused, nothing queued but the false of a stop, no
\* handle, no live timer, the callback never invoked
Untouched ==
    /\ ~isActive /\ ~isPaused
    /\ qActive \in {<<>>, <<FALSE>>} /\ qPaused \in {<<>>, <<FALSE>>}
    /\ intervalRef = NULL /\ Live = {}
    /\ pausedCallbackRef = NoCallback
    /\ lastCalled = NoCallback

EnteredRunning ==
    /\ State = "Running"
    /\ \/ lastOp.op = "restart"
       \/ /\ lastOp.op \in {"start", "mount", "enable", "delay", "immediate",
                            "executeImmediately"}
          /\ lastOp.from # "Running"

\* C22: with executeImmediately set, after a transition into Running made by
\* start, auto-start or restart and until the next operation, the callback has
\* been invoked once at the transition and once per elapsed delay since.
ExecuteImmediatelyCounts ==
    (EnteredRunning /\ executeImmediately) => calls = 1 + (since \div delay)

\* ---- C23 --------------------------------------------------------------------
\* C23: teardown from any state leaves no timer of the instance live and the
\* handle field null, teardown with no live timer (and so a second teardown)
\* changes neither the handle field, the timers nor the rendered status, and
\* once the host is unmounted no tick invokes the callback.
TeardownReleasesEveryHandle ==
    [][/\ Teardown =>
             /\ Live' = {}
             /\ intervalRef' = NULL
             /\ Live = {} => UNCHANGED <<intervalRef, timers, isActive, isPaused>>
       /\ (Advance /\ phase = "unmounted") =>
             /\ calls' = calls
             /\ Live' = {}]_vars

\* ---- C24 --------------------------------------------------------------------
\* C24: after start called in Stopped with an enabled delay and
\* executeImmediately false, and until the next operation, the controller is
\* Running (rendered isActive true and isPaused false once the host has
\* re-rendered) and the callback has been invoked exactly once per elapsed
\* delay.
StartFromStoppedTicks ==
    (/\ lastOp.op = "start" /\ lastOp.from = "Stopped"
     /\ delay # NULL /\ ~executeImmediately) =>
        /\ State = "Running"
        /\ (qActive = <<>> /\ qPaused = <<>>) => (isActive /\ ~isPaused)
        /\ calls = since \div delay

\* ---- C25 --------------------------------------------------------------------
\* the status after the queued updates of c are rendered
StatusOf(c) ==
    Status(IF c.qActive = <<>> THEN isActive ELSE c.qActive[1],
           IF c.qPaused = <<>> THEN isPaused ELSE c.qPaused[1])

\* the result c of one call, as the next call of the same synchronous sequence
\* finds it
Again(c) == [c EXCEPT !.calls = 0, !.threw = FALSE]

SameOutcome(c1, c2) ==
    /\ StatusOf(c1) = StatusOf(c2)
    /\ Cardinality(DOMAIN c1.timers) = Cardinality(DOMAIN c2.timers)

StartTwice ==
    SameOutcome(start(Again(start(Cur, delay, executeImmediately)), delay, executeImmediately),
                start(Cur, delay, executeImmediately))
StopTwice == SameOutcome(stop(Again(stop(Cur))), stop(Cur))
PauseTwice == SameOutcome(pause(Again(pause(Cur, isPaused)), isPaused), pause(Cur, isPaused))
ResumeTwice ==
    SameOutcome(resume(Again(resume(Cur, isPaused, delay)), isPaused, delay),
                resume(Cur, isPaused, delay))
RestartTwice ==
    SameOutcome(restart(Again(restart(Cur, delay, executeImmediately)), delay, executeImmediately),
                restart(Cur, delay, executeImmediately))

\* C25: in every state of a mounted controller, each of start, stop, pause,
\* resume and restart called twice through the functions of the current render
\* leaves the same status and the same number of live timers as called once.
OperationsIdempotent ==
    phase = "mounted" =>
        StartTwice /\ StopTwice /\ PauseTwice /\ ResumeTwice /\ RestartTwice

\* ---- C26 --------------------------------------------------------------------
\* C26: a tick whose callback throws changes nothing of the controller: the
\* handle field, the rendered and the queued status are unchanged, every live
\* timer stays registered with its period, and a timer that fired is at phase
\* 0 again, so its next tick is one period later.
ThrowingTickChangesNothing ==
    [][(Advance /\ Due # {} /\ Throws(callbackRef)) =>
          /\ lastCalled' = callbackRef
          /\ UNCHANGED <<phase, intervalRef, isActive, isPaused, qActive, qPaused,
                         callbackRef, pausedCallbackRef>>
          /\ Live' = Live
          /\ \A h \in Live : timers'[h].period = timers[h].period
          /\ \A h \in Due : timers'[h].elapsed = 0]_vars

\* Running with one timer of period 1 and a callback that throws: two time
\* units after the start the callback has thrown twice and the timer is live
ThrowingTickWitness ==
    /\ lastOp.op = "start" /\ phase = "mounted"
    /\ Throws(callbackRef) /\ lastCalled = callbackRef
    /\ Live = {intervalRef} /\ timers[intervalRef].period = 1
    /\ isActive /\ ~isPaused
    /\ since = 2 /\ calls = 2

\* ---- C27 --------------------------------------------------------------------
\* C27: in every state of a mounted controller with no state update queued, a
\* timer is live exactly when isActive is true and isPaused is false, and then
\* exactly one is.
HandleLiveIffRunning ==
    (phase = "mounted" /\ qActive = <<>> /\ qPaused = <<>>) =>
        /\ Live # {} <=> (isActive /\ ~isPaused)
        /\ (isActive /\ ~isPaused) => Live = {intervalRef}

\* ---- C28 --------------------------------------------------------------------
\* C28: stop, pause, resume, teardown and a re-render never invoke the
\* callback from inside the call; start, restart and the immediate-start
\* effect do not when executeImmediately is false; and after a resume called in
\* Paused the callback is not invoked before one full delay has elapsed.
OnlyStartAndRestartInvoke ==
    [][/\ (Stop \/ Pause \/ Resume \/ Teardown \/ Render) =>
             /\ calls' = (IF Render THEN calls ELSE 0)
             /\ lastCalled' = lastCalled
       /\ ((Start \/ Restart \/ Mount \/ HostUpdate) /\ ~executeImmediately') =>
             /\ calls' = 0
             /\ lastCalled' = lastCalled
       /\ (Advance /\ lastOp.op = "resume" /\ lastOp.from = "Paused"
               /\ delay # NULL /\ since + 1 < delay) =>
             calls' = 0]_vars

\* ---- C29 --------------------------------------------------------------------
Ops == {"start", "stop", "pause", "resume", "restart"}

\* the operation called through the functions of a render whose isPaused is paused
Apply(name, c, paused) ==
    CASE name = "start"   -> start(c, delay, executeImmediately)
      [] name = "stop"    -> stop(c)
      [] name = "pause"   -> pause(c, paused)
      [] name = "resume"  -> resume(c, paused, delay)
      [] name = "restart" -> restart(c, delay, executeImmediately)

\* isPaused as the re-render after c commits it
PausedAfter(c) == IF c.qPaused = <<>> THEN isPaused ELSE c.qPaused[1]

\* C29: in every rendered state of a mounted controller and for any two
\* operations, calling the second through the functions of the same render as
\* the first ends in the same status and the same live timers as calling it
\* after the host has re-rendered.
RenderBetweenMakesNoDifference ==
    (phase = "mounted" /\ qActive = <<>> /\ qPaused = <<>>) =>
        \A a \in Ops, b \in Ops :
            LET c1 == Again(Apply(a, Cur, isPaused))
                together == Apply(b, c1, isPaused)
                apart    == Apply(b, c1, PausedAfter(c1))
            IN  /\ StatusOf(together) = StatusOf(apart)
                /\ DOMAIN together.timers = DOMAIN apart.timers

\* ---- C30 --------------------------------------------------------------------
\* C30: when the callback throws in the synchronous invocation of start or
\* restart, no timer is live: start has registered nothing and left the status
\* and the handle field unchanged, restart has released the handle it held and
\* left the controller Stopped with a null handle field.
ThrowInStartLeavesNoTimer ==
    [][/\ (Start /\ lastOp'.threw) =>
             /\ UNCHANGED StatusAndHandle
             /\ Live' = {}
       /\ (Restart /\ lastOp'.threw) =>
             /\ State' = "Stopped"
             /\ intervalRef' = NULL
             /\ intervalRef \notin Live'
             /\ Live' = {}]_vars

\* ---- C31 --------------------------------------------------------------------
\* C31: with both hooks driven side by side by the same mount, start, stop,
\* restart, host updates, teardown and elapsed time, in every state the two have
\* the same rendered and the same queued isActive, the same number of live
\* timers with the same periods and phases (so the same tick times), and the
\* same callback invocations: their number and the callback that ran.
EarlierVariantEquivalent ==
    /\ earlierIsActive = isActive
    /\ EarlierNextActive = NextActive
    /\ Cardinality(EarlierLive) = Cardinality(Live)
    /\ earlierTimers = timers
    /\ EarlierDue = Due
    /\ earlierCalls = calls
    /\ earlierLastCalled = lastCalled

\* both hooks were restarted while Running with executeImmediately set; two
\* periods later each has invoked the callback three times and has one timer
EarlierVariantWitness ==
    /\ lastOp.op = "restart" /\ lastOp.from = "Running"
    /\ executeImmediately /\ delay = 1
    /\ since = 2
    /\ calls = 3 /\ earlierCalls = 3
    /\ Cardinality(EarlierLive) = 1 /\ earlierIntervalRef \in EarlierLive
    /\ earlierIsActive

\* ---- C32 --------------------------------------------------------------------
\* C32: in every state of the draft hook at most one timer registered by the
\* instance is live, and after the unmount none is.
DraftAtMostOneInterval ==
    /\ Cardinality(DraftLive) <= 1
    /\ draftPhase = "unmounted" => DraftLive = {}
====
